---- MODULE Spec2Model ----
(***************************************************************************)
(* Model of OS_Build/kernel/kernel.c: the boot loop kernel_main, the pure  *)
(* helpers vga_entry_color, vga_entry and strlen, and the text-mode        *)
(* display driver and integer formatter that kernel.c calls as externs.    *)
(***************************************************************************)
EXTENDS Integers, Sequences, FiniteSets, TLC

(* ---------------- program constants ---------------- *)

VGA_COLOR_BLACK == 0
VGA_COLOR_LIGHT_GREY == 7
VGA_COLOR_WHITE == 15
VGA_WIDTH == 80
VGA_HEIGHT == 25
LINE_SIZE == 100
LOOP_FIRST == 1
LOOP_LAST == 35
RADIX == 10

(* ---------------- bounds of the model ---------------- *)

\* Longest string body (bytes before the terminator) given to strlen.
MaxStrLen == 3
\* The counter of completed 1..35 passes saturates here.
MaxPass == 2

(* ---------------- fixed-width integer helpers ---------------- *)

\* Bitwise OR of two naturals, bit by bit.
RECURSIVE BitOr(_, _)
BitOr(a, b) ==
  IF a = 0 THEN b
  ELSE IF b = 0 THEN a
  ELSE (IF a % 2 = 1 \/ b % 2 = 1 THEN 1 ELSE 0) + 2 * BitOr(a \div 2, b \div 2)

\* Left shift of a natural (in int, no overflow for the operands used).
Shl(a, n) == a * (2 ^ n)

\* Conversions to uint8_t and uint16_t.
ToU8(x) == x % 256
ToU16(x) == x % 65536

\* The enumerators of enum vga_color and the byte values.
vga_color == VGA_COLOR_BLACK .. VGA_COLOR_WHITE
Byte == 0 .. 255

(* ---------------- pure functions of kernel.c ---------------- *)

\* A slip in precedence: (fg | bg) << 4.
vga_entry_color_shiftall(fg, bg) == ToU8(Shl(BitOr(fg, bg), 4))

\* return fg | bg << 4;   (<< binds tighter than |; result converted to uint8_t)
vga_entry_color(fg, bg) == ToU8(BitOr(fg, Shl(bg, 4)))

\* A slip in the shift width: color << 4.
vga_entry_shift4(uc, color) == ToU16(BitOr(ToU16(uc), Shl(ToU16(color), 4)))

\* return (uint16_t) uc | (uint16_t) color << 8;
vga_entry(uc, color) == ToU16(BitOr(ToU16(uc), Shl(ToU16(color), 8)))

\* strlen as a function: str is the memory starting at the pointer
\* (1-based here, so str[len + 1] is the C str[len]).
RECURSIVE strlen_from(_, _)
strlen_from(str, len) ==
  IF str[len + 1] # 0 THEN strlen_from(str, len + 1) ELSE len

strlen(str) == strlen_from(str, 0)

(* ---------------- extern collaborators (display.h, util.h) ---------------- *)

\* Character code of one digit of value d.
DigitChar(d) == IF d < 10 THEN 48 + d ELSE 87 + d

\* Digits of a positive value, most significant first.
RECURSIVE Digits(_, _)
Digits(v, radix) ==
  IF v < radix THEN <<DigitChar(v)>>
  ELSE Append(Digits(v \div radix, radix), DigitChar(v % radix))

\* Text of int_to_string(v, buff, radix), without the terminator.
int_to_string(v, radix) ==
  IF v < 0 THEN <<45>> \o Digits(0 - v, radix) ELSE Digits(v, radix)

\* Memory after storing txt and its terminator at the start of buff.
\* A store past the end of buff is not kept here (it lands outside buff).
StoreText(buff, txt) ==
  [k \in DOMAIN buff |->
     IF k <= Len(txt) THEN txt[k]
     ELSE IF k = Len(txt) + 1 THEN 0
     ELSE buff[k]]

\* Default attribute: light grey on black.
DefaultColor == vga_entry_color(VGA_COLOR_LIGHT_GREY, VGA_COLOR_BLACK)

\* The blank cell: a space in the default colour.
BlankCell == vga_entry(32, DefaultColor)

Cells == 0 .. (VGA_WIDTH * VGA_HEIGHT - 1)

\* index = row * 80 + column
CellIndex(row, col) == row * VGA_WIDTH + col

\* clear_screen(): every cell blank.
ClearedBuffer == [c \in Cells |-> BlankCell]

\* print_string(text): the bytes before the terminator go to the cells from
\* the cursor on, left to right, with no check against the row width.
PrintedBuffer(buf, row, col, text) ==
  [c \in DOMAIN buf |->
     IF c - CellIndex(row, col) \in 0 .. (strlen(text) - 1)
       THEN vga_entry(text[c - CellIndex(row, col) + 1], DefaultColor)
       ELSE buf[c]]

\* Scrolling: every row moves up by one and the last row is blanked.
ScrolledBuffer(buf) ==
  [c \in DOMAIN buf |->
     IF c + VGA_WIDTH \in DOMAIN buf THEN buf[c + VGA_WIDTH] ELSE BlankCell]

\* print_nl(): the row after a newline, under the policy of the driver.
NextRow(pol, row) ==
  IF row + 1 < VGA_HEIGHT THEN row + 1
  ELSE IF pol = "wrap" THEN 0 ELSE VGA_HEIGHT - 1

\* print_nl(): the buffer after a newline, under the policy of the driver.
NextBuffer(pol, buf, row) ==
  IF row + 1 < VGA_HEIGHT \/ pol = "wrap" THEN buf ELSE ScrolledBuffer(buf)

(* ---------------- state ---------------- *)

VARIABLES
  pc,            \* kernel_main: the display call it makes next
  i,             \* kernel_main: the loop variable of the for loop
  line,          \* kernel_main: char line[100]
  pass,          \* completed iterations of while (1), saturating at MaxPass
  call,          \* the last extern call made, with its arguments
  converted,     \* the value given to the last int_to_string call
  nclear,        \* number of clear_screen calls made
  terminal_row,  \* the global size_t terminal_row of kernel.c
  buffer,        \* display driver: the 80 x 25 cells
  cursor_row,    \* display driver: cursor row
  cursor_col,    \* display driver: cursor column
  policy,        \* display driver: what print_nl does on the last row
  wr,            \* cells stored by the last print_string call
  nstored,       \* bytes stored into line by the last int_to_string call
  args,          \* function under test: its arguments
  len,           \* strlen: the local size_t len
  ret,           \* function under test: the value returned
  fpc            \* function under test: position

kvars == <<pc, i, line, pass, call, converted, nclear, terminal_row>>
dvars == <<buffer, cursor_row, cursor_col, policy, wr, nstored>>
fvars == <<args, len, ret, fpc>>
vars == <<pc, i, line, pass, call, converted, nclear, terminal_row,
          buffer, cursor_row, cursor_col, policy, wr, nstored,
          args, len, ret, fpc>>

\* Values an uninitialised char of the stack may hold (samples).
StackGarbage == {0, 57, 255}

\* Cells the firmware may have left on the screen (samples).
ScreenGarbage == {BlankCell, vga_entry(88, 31), 0}

\* Cursor positions the driver may hold before clear_screen (samples).
CursorGarbage == {<<0, 0>>, <<VGA_HEIGHT - 1, VGA_WIDTH - 1>>, <<3, 40>>}

\* The wrap-or-scroll choice the driver makes for print_nl.
Policies == {"wrap", "scroll"}

\* A line[100] object whose lifetime just began: any content.
FreshLine == {[k \in 1 .. LINE_SIZE |-> g] : g \in StackGarbage}

\* The function-test variables while kernel_main runs.
NoTest == args = <<>> /\ len = 0 /\ ret = 0 - 1 /\ fpc = "none"

\* The kernel variables while a function is tested on its own.
NoKernel ==
  /\ pc = "none" /\ i = 0 /\ line = <<>> /\ pass = 0
  /\ call = <<"none">> /\ converted = 0 /\ nclear = 0 /\ terminal_row = 0
  /\ buffer = <<>> /\ cursor_row = 0 /\ cursor_col = 0 /\ policy = "wrap"
  /\ wr = {} /\ nstored = 0

(* ---------------- kernel_main ---------------- *)

\* Entry of kernel_main: nothing called yet, terminal_row zero-initialised,
\* line, screen and cursor hold whatever was there.
Init ==
  /\ pc = "clear_screen"
  /\ i = 0
  /\ line \in FreshLine
  /\ pass = 0
  /\ call = <<"none">>
  /\ converted = 0
  /\ nclear = 0
  /\ terminal_row = 0
  /\ \E g \in ScreenGarbage : buffer = [c \in Cells |-> g]
  /\ \E cur \in CursorGarbage : cursor_row = cur[1] /\ cursor_col = cur[2]
  /\ policy \in Policies
  /\ wr = {}
  /\ nstored = 0
  /\ NoTest

\* The clear_screen() call left out.
CallClearScreen_skipped ==
  /\ pc = "clear_screen"
  /\ call' = <<"clear_screen">>
  /\ nclear' = nclear + 1
  /\ i' = LOOP_FIRST
  /\ pc' = "int_to_string"
  /\ UNCHANGED <<buffer, cursor_row, cursor_col>>
  /\ UNCHANGED <<line, pass, converted, terminal_row, policy, wr, nstored>>
  /\ UNCHANGED fvars

\* clear_screen(); then control enters while (1) and the for loop (i = 1).
CallClearScreen ==
  /\ pc = "clear_screen"
  /\ buffer' = ClearedBuffer
  /\ cursor_row' = 0
  /\ cursor_col' = 0
  /\ call' = <<"clear_screen">>
  /\ nclear' = nclear + 1
  /\ i' = LOOP_FIRST
  /\ pc' = "int_to_string"
  /\ UNCHANGED <<line, pass, converted, terminal_row, policy, wr, nstored>>
  /\ UNCHANGED fvars

\* The conversion called with radix 2.
CallIntToString_radix2 ==
  /\ pc = "int_to_string"
  /\ line' = StoreText(line, int_to_string(i, 2))
  /\ nstored' = Len(int_to_string(i, 2)) + 1
  /\ call' = <<"int_to_string", i, 2>>
  /\ converted' = i
  /\ pc' = "print_string"
  /\ UNCHANGED <<i, pass, nclear, terminal_row>>
  /\ UNCHANGED <<buffer, cursor_row, cursor_col, policy, wr>>
  /\ UNCHANGED fvars

\* int_to_string(i, line, 10);
CallIntToString ==
  /\ pc = "int_to_string"
  /\ line' = StoreText(line, int_to_string(i, RADIX))
  /\ nstored' = Len(int_to_string(i, RADIX)) + 1
  /\ call' = <<"int_to_string", i, RADIX>>
  /\ converted' = i
  /\ pc' = "print_string"
  /\ UNCHANGED <<i, pass, nclear, terminal_row>>
  /\ UNCHANGED <<buffer, cursor_row, cursor_col, policy, wr>>
  /\ UNCHANGED fvars

\* print_string(line);
CallPrintString ==
  /\ pc = "print_string"
  /\ buffer' = PrintedBuffer(buffer, cursor_row, cursor_col, line)
  /\ wr' = {CellIndex(cursor_row, cursor_col) + k : k \in 0 .. (strlen(line) - 1)}
  /\ cursor_col' = cursor_col + strlen(line)
  /\ call' = <<"print_string", SubSeq(line, 1, strlen(line))>>
  /\ pc' = "print_nl"
  /\ UNCHANGED <<i, line, pass, converted, nclear, terminal_row>>
  /\ UNCHANGED <<cursor_row, policy, nstored>>
  /\ UNCHANGED fvars

\* The pass counter after one more completed pass.
NextPass(p) == IF p < MaxPass THEN p + 1 ELSE p

\* The loop test written i < 35.
CallPrintNl_lt ==
  /\ pc = "print_nl"
  /\ buffer' = NextBuffer(policy, buffer, cursor_row)
  /\ cursor_row' = NextRow(policy, cursor_row)
  /\ cursor_col' = 0
  /\ call' = <<"print_nl">>
  /\ IF i + 1 < LOOP_LAST
       THEN i' = i + 1 /\ line' = line /\ pass' = pass
       ELSE i' = LOOP_FIRST /\ line' \in (FreshLine \cup {line})
            /\ pass' = NextPass(pass)
  /\ pc' = "int_to_string"
  /\ UNCHANGED <<converted, nclear, terminal_row, policy, wr, nstored>>
  /\ UNCHANGED fvars

\* clear_screen() placed inside while (1).
CallPrintNl_reclear ==
  /\ pc = "print_nl"
  /\ buffer' = NextBuffer(policy, buffer, cursor_row)
  /\ cursor_row' = NextRow(policy, cursor_row)
  /\ cursor_col' = 0
  /\ call' = <<"print_nl">>
  /\ IF i + 1 <= LOOP_LAST
       THEN i' = i + 1 /\ line' = line /\ pass' = pass
            /\ pc' = "int_to_string"
       ELSE i' = LOOP_FIRST /\ line' \in (FreshLine \cup {line})
            /\ pass' = NextPass(pass) /\ pc' = "clear_screen"
  /\ UNCHANGED <<converted, nclear, terminal_row, policy, wr, nstored>>
  /\ UNCHANGED fvars

\* The for loop not wrapped in while (1): kernel_main returns.
CallPrintNl_returns ==
  /\ pc = "print_nl"
  /\ buffer' = NextBuffer(policy, buffer, cursor_row)
  /\ cursor_row' = NextRow(policy, cursor_row)
  /\ cursor_col' = 0
  /\ call' = <<"print_nl">>
  /\ IF i + 1 <= LOOP_LAST
       THEN i' = i + 1 /\ line' = line /\ pass' = pass
            /\ pc' = "int_to_string"
       ELSE i' = i + 1 /\ line' = line
            /\ pass' = NextPass(pass) /\ pc' = "returned"
  /\ UNCHANGED <<converted, nclear, terminal_row, policy, wr, nstored>>
  /\ UNCHANGED fvars

\* The print_nl() call left out of the loop body.
CallPrintNl_nonewline ==
  /\ pc = "print_nl"
  /\ UNCHANGED <<buffer, cursor_row, cursor_col>>
  /\ call' = <<"print_nl">>
  /\ IF i + 1 <= LOOP_LAST
       THEN i' = i + 1 /\ line' = line /\ pass' = pass
       ELSE i' = LOOP_FIRST /\ line' \in (FreshLine \cup {line})
            /\ pass' = NextPass(pass)
  /\ pc' = "int_to_string"
  /\ UNCHANGED <<converted, nclear, terminal_row, policy, wr, nstored>>
  /\ UNCHANGED fvars

\* kernel_main advancing terminal_row itself after the newline.
CallPrintNl_bumps ==
  /\ pc = "print_nl"
  /\ buffer' = NextBuffer(policy, buffer, cursor_row)
  /\ cursor_row' = NextRow(policy, cursor_row)
  /\ cursor_col' = 0
  /\ call' = <<"print_nl">>
  /\ IF i + 1 <= LOOP_LAST
       THEN i' = i + 1 /\ line' = line /\ pass' = pass
       ELSE i' = LOOP_FIRST /\ line' \in (FreshLine \cup {line})
            /\ pass' = NextPass(pass)
  /\ pc' = "int_to_string"
  /\ terminal_row' = (terminal_row + 1) % VGA_HEIGHT
  /\ UNCHANGED <<converted, nclear, policy, wr, nstored>>
  /\ UNCHANGED fvars

\* print_nl(); ++i; and, when i <= 35 fails, the next iteration of
\* while (1): a new line[100] and i = 1.
CallPrintNl ==
  /\ pc = "print_nl"
  /\ buffer' = NextBuffer(policy, buffer, cursor_row)
  /\ cursor_row' = NextRow(policy, cursor_row)
  /\ cursor_col' = 0
  /\ call' = <<"print_nl">>
  /\ IF i + 1 <= LOOP_LAST
       THEN i' = i + 1 /\ line' = line /\ pass' = pass
       ELSE i' = LOOP_FIRST /\ line' \in (FreshLine \cup {line})
            /\ pass' = NextPass(pass)
  /\ pc' = "int_to_string"
  /\ UNCHANGED <<converted, nclear, terminal_row, policy, wr, nstored>>
  /\ UNCHANGED fvars

Next ==
  \/ CallClearScreen
  \/ CallIntToString
  \/ CallPrintString
  \/ CallPrintNl

Spec == Init /\ [][Next]_vars

\* The single thread of control keeps running and the extern calls return.
FairSpec == Spec /\ WF_vars(Next)

(* ---------------- the pure functions, each run on its own ---------------- *)

\* vga_entry_color called once on a pair of enumerators.
InitColor ==
  /\ NoKernel
  /\ args \in vga_color \X vga_color
  /\ len = 0
  /\ ret = 0 - 1
  /\ fpc = "vga_entry_color"

Do_vga_entry_color ==
  /\ fpc = "vga_entry_color"
  /\ ret' = vga_entry_color(args[1], args[2])
  /\ fpc' = "done"
  /\ UNCHANGED <<args, len>>
  /\ UNCHANGED <<kvars, dvars>>

NextColor == Do_vga_entry_color

SpecColor == InitColor /\ [][NextColor]_vars

\* vga_entry called once on a glyph byte and an attribute byte.
InitEntry ==
  /\ NoKernel
  /\ args \in Byte \X Byte
  /\ len = 0
  /\ ret = 0 - 1
  /\ fpc = "vga_entry"

Do_vga_entry ==
  /\ fpc = "vga_entry"
  /\ ret' = vga_entry(args[1], args[2])
  /\ fpc' = "done"
  /\ UNCHANGED <<args, len>>
  /\ UNCHANGED <<kvars, dvars>>

NextEntry == Do_vga_entry

SpecEntry == InitEntry /\ [][NextEntry]_vars

\* Byte values the strings given to strlen are made of (samples).
ByteSample == {0, 1, 49, 255}

\* Memory regions of at most MaxStrLen + 1 bytes holding a zero byte.
ZeroTerminated ==
  {s \in UNION {[1 .. n -> ByteSample] : n \in 1 .. (MaxStrLen + 1)} :
     \E k \in DOMAIN s : s[k] = 0}

\* The texts the boot loop prints, each with its terminator.
DecimalTexts ==
  {Append(int_to_string(k, RADIX), 0) : k \in LOOP_FIRST .. LOOP_LAST}

\* strlen called once on a zero-terminated string; size_t len = 0.
InitStrlen ==
  /\ NoKernel
  /\ args \in {<<s>> : s \in ZeroTerminated \cup DecimalTexts}
  /\ len = 0
  /\ ret = 0 - 1
  /\ fpc = "strlen"

\* while (str[len]) { len++; }
strlen_loop ==
  /\ fpc = "strlen"
  /\ args[1][len + 1] # 0
  /\ len' = len + 1
  /\ UNCHANGED <<args, ret, fpc>>
  /\ UNCHANGED <<kvars, dvars>>

\* The terminator counted too.
strlen_return_plus1 ==
  /\ fpc = "strlen"
  /\ args[1][len + 1] = 0
  /\ ret' = len + 1
  /\ fpc' = "done"
  /\ UNCHANGED <<args, len>>
  /\ UNCHANGED <<kvars, dvars>>

\* str[len] is zero: return len;
strlen_return ==
  /\ fpc = "strlen"
  /\ args[1][len + 1] = 0
  /\ ret' = len
  /\ fpc' = "done"
  /\ UNCHANGED <<args, len>>
  /\ UNCHANGED <<kvars, dvars>>

NextStrlen == strlen_loop \/ strlen_return

SpecStrlen == InitStrlen /\ [][NextStrlen]_vars

\* A call of strlen runs to its end once started.
FairSpecStrlen == SpecStrlen /\ WF_vars(NextStrlen)

(* ---------------- properties ---------------- *)

\* The values the for loop ranges over.
LoopValues == LOOP_FIRST .. LOOP_LAST

\* The value converted after v in the cycle 1, 2, ..., 35, 1, ...
Successor(v) == IF v = LOOP_LAST THEN LOOP_FIRST ELSE v + 1

\* Row r of the display shows exactly txt: its glyphs in the default colour
\* from column 0, blanks after them.  False of a row the display lacks.
RowText(r, txt) ==
  /\ r \in 0 .. (VGA_HEIGHT - 1)
  /\ \A c \in 0 .. (VGA_WIDTH - 1) :
       buffer[CellIndex(r, c)] =
         IF c < Len(txt) THEN vga_entry(txt[c + 1], DefaultColor) ELSE BlankCell

\* Index of the first zero byte of s (0-based), found by search.
FirstZero(s) ==
  CHOOSE k \in 0 .. (Len(s) - 1) :
    s[k + 1] = 0 /\ \A j \in 0 .. (k - 1) : s[j + 1] # 0

\* C1: every step of kernel_main makes the next call of the fixed cycle
\* int_to_string(i, line, 10) -> print_string(line) -> print_nl(): a
\* conversion follows clear_screen (value 1) or a print_nl (the successor of
\* the value converted before, 1 after 35), has radix 10 and a value in
\* 1..35; a print_string follows a conversion and prints what is in line; a
\* print_nl follows a print_string.
C1_CallStep ==
  /\ call'[1] \in {"int_to_string", "print_string", "print_nl", "clear_screen"}
  /\ call'[1] = "int_to_string" =>
       /\ call[1] \in {"clear_screen", "print_nl"}
       /\ call'[2] \in LoopValues
       /\ call'[2] = (IF call[1] = "clear_screen" THEN 1 ELSE Successor(converted))
       /\ call'[3] = 10
       /\ converted' = call'[2]
  /\ call'[1] = "print_string" =>
       /\ call[1] = "int_to_string"
       /\ call'[2] = SubSeq(line, 1, strlen(line))
       /\ converted' = converted
       /\ converted \in LoopValues
  /\ call'[1] = "print_nl" =>
       /\ call[1] = "print_string"
       /\ converted' = converted
  /\ call'[1] = "clear_screen" => call = <<"none">>

C1_CallCycle == [][C1_CallStep]_vars

\* C1 witness: the conversion of 1 that follows the print of 35.
C1_Witness ==
  pass >= 1 /\ call = <<"int_to_string", 1, 10>> /\ i = 1

\* C2: clear_screen is called exactly once and first: it is the call
\* kernel_main is about to make exactly while no call has been made, and once
\* any call has been made the number of clear_screen calls is 1 for good.
C2_ClearOnceFirst ==
  /\ (pc = "clear_screen") <=> (call = <<"none">>)
  /\ nclear = (IF call = <<"none">> THEN 0 ELSE 1)

\* C2 witness: a second pass of the loop is under way after one clear_screen.
C2_Witness ==
  nclear = 1 /\ pass >= 1 /\ call = <<"print_nl">> /\ i = 2

\* C3: kernel_main never returns (it is always about to make one of its
\* four calls), and every value of 1..35 is printed again and again.
C3_NeverReturns ==
  /\ [](pc \in {"clear_screen", "int_to_string", "print_string", "print_nl"})
  /\ \A k \in LoopValues : []<>(call[1] = "print_string" /\ converted = k)

\* C3 witness: 35 printed in a pass after the first.
C3_Witness ==
  pass >= 1 /\ call[1] = "print_string" /\ converted = LOOP_LAST

\* C4: vga_entry_color(fg, bg) is fg | (bg << 4) for all enumerator pairs,
\* fits in a byte without truncation, holds fg in bits 0-3 and bg in bits
\* 4-7, and changes nothing else.
C4_ColorPacking ==
  fpc = "done" /\ Len(args) = 2 =>
    /\ ret = BitOr(args[1], Shl(args[2], 4))
    /\ ret = args[1] + 16 * args[2]
    /\ ret \in 0 .. 255
    /\ ret % 16 = args[1]
    /\ ret \div 16 = args[2]
    /\ NoKernel

\* C4 witness: white on white packed.
C4_Witness ==
  fpc = "done" /\ args = <<VGA_COLOR_WHITE, VGA_COLOR_WHITE>> /\ ret = 255

\* C5: vga_entry(g, a) is g | (a << 8) as a 16-bit value for all bytes g
\* and a, and its low byte is g and its high byte is a.
C5_EntryRoundTrip ==
  fpc = "done" /\ Len(args) = 2 =>
    /\ ret = BitOr(args[1], Shl(args[2], 8))
    /\ ret = args[1] + 256 * args[2]
    /\ ret \in 0 .. 65535
    /\ ret % 256 = args[1]
    /\ ret \div 256 = args[2]

\* C5 witness: a cell with glyph 'A' and attribute 0x1F.
C5_Witness ==
  fpc = "done" /\ args = <<65, 31>> /\ ret = 8001

\* C6 as stated: once exactly 35 print/newline cycles have run, the text of
\* the k-th cycle is on display row k-1 for every k in 1..35.
C6_Original ==
  pass = 1 /\ pc = "int_to_string" /\ i = LOOP_FIRST =>
    \A k \in LoopValues : RowText(k - 1, int_to_string(k, RADIX))

\* The number of texts printed so far in the current pass.
PrintedInPass == IF pc = "print_nl" THEN i ELSE i - 1

\* C6 amended: in the first pass, as long as at most 25 texts have been
\* printed and the newline after the 25th has not been made, the text of
\* the k-th cycle is on display row k-1 for every cycle k made so far.
C6_FirstRows ==
  pass = 0 /\ pc # "clear_screen" /\ i <= VGA_HEIGHT =>
    /\ cursor_row = i - 1
    /\ \A k \in 1 .. PrintedInPass : RowText(k - 1, int_to_string(k, RADIX))

\* C6 witness: "25" has just been printed on the last row.
C6_Witness ==
  /\ pass = 0 /\ pc = "print_nl" /\ i = VGA_HEIGHT
  /\ RowText(VGA_HEIGHT - 1, <<50, 53>>)
  /\ RowText(0, <<49>>)

\* C7: after clear_screen the cursor row is in [0, 25), the column in
\* [0, 80), and every cell the last print_string stored has its index in
\* [0, 2000).
C7_CursorInGrid ==
  pc # "clear_screen" =>
    /\ cursor_row \in 0 .. (VGA_HEIGHT - 1)
    /\ cursor_col \in 0 .. (VGA_WIDTH - 1)
    /\ CellIndex(cursor_row, cursor_col) \in 0 .. 1999
    /\ wr \subseteq 0 .. 1999
    /\ wr \subseteq DOMAIN buffer

\* C7 witness: a print on the last row after more than 25 newlines.
C7_Witness ==
  /\ pass >= 1 /\ call[1] = "print_string"
  /\ cursor_row = VGA_HEIGHT - 1 /\ cursor_col = 2
  /\ wr = {CellIndex(VGA_HEIGHT - 1, 0), CellIndex(VGA_HEIGHT - 1, 1)}

\* C8: each conversion of the boot loop stores at most 3 bytes (2 digits
\* and the terminator) into the 100 bytes of line, every string printed has
\* length 1 or 2 and is the decimal text of a value in 1..35, and it is
\* written from column 0 within one row, never reaching column 79.
C8_ShortTexts ==
  /\ nstored <= 3 /\ nstored <= LINE_SIZE
  /\ Len(line) = LINE_SIZE
  /\ pc = "print_string" =>
       /\ nstored \in {2, 3}
       /\ strlen(line) = nstored - 1
       /\ SubSeq(line, 1, strlen(line)) = int_to_string(i, RADIX)
       /\ cursor_col = 0
  /\ call[1] = "print_string" =>
       /\ Len(call[2]) \in {1, 2}
       /\ call[2] = int_to_string(converted, RADIX)
       /\ cursor_col = Len(call[2])
       /\ wr = {CellIndex(cursor_row, c) : c \in 0 .. (Len(call[2]) - 1)}
       /\ \A c \in wr : c % VGA_WIDTH < VGA_WIDTH - 1
  /\ cursor_col < VGA_WIDTH - 1 \/ pc = "clear_screen"

\* C8 witness: the two digits of 35 stored and printed.
C8_Witness ==
  /\ call = <<"print_string", <<51, 53>>>> /\ nstored = 3
  /\ line[1] = 51 /\ line[2] = 53 /\ line[3] = 0 /\ cursor_col = 2

\* C9: no step of kernel_main changes terminal_row, which keeps its
\* initial value 0 while the cursor of the display driver advances.
C9_TerminalRowFrame ==
  [](terminal_row = 0) /\ [][terminal_row' = terminal_row]_vars

\* C9 witness: the driver's cursor has advanced, terminal_row has not.
C9_Witness ==
  pass >= 1 /\ cursor_row = 7 /\ call = <<"print_nl">> /\ terminal_row = 0

\* C10: strlen of a zero-terminated string terminates, returns the index of
\* its first zero byte (the number of non-zero bytes before it, 0 for the
\* empty string), leaves the string as it was, and returns 1 or 2 for the
\* decimal text of a value in 1..35.
C10_Strlen ==
  /\ <>(fpc = "done")
  /\ [](IF fpc = "done" /\ Len(args) = 1
          THEN /\ ret = FirstZero(args[1])
               /\ ret = strlen(args[1])
               /\ \A j \in 1 .. ret : args[1][j] # 0
               /\ args[1][ret + 1] = 0
               /\ (args[1] \in DecimalTexts => ret \in {1, 2})
               /\ (args[1][1] = 0 => ret = 0)
          ELSE ret = 0 - 1)
  /\ [][args' = args]_vars

\* C10 witness: a string with bytes after its terminator measured.
C10_Witness ==
  fpc = "done" /\ args = <<<<49, 0, 255>>>> /\ ret = 1 /\ len = 1

====
